---- MODULE Spec2Model ----
(***************************************************************************)
(* Model of elemental_attack_detector.py: the ElementalAttackDetector      *)
(* controller (start / stop / pause, settings dialog), the detection       *)
(* threads detect_elemental / detect_physical, and detect_with_templates.  *)
(*                                                                         *)
(* Time is counted in ticks of 0.5 s, the pause poll of the loops          *)
(* (time.sleep(0.5)); cooldown and interval values are whole ticks, which  *)
(* are positions of the settings sliders (resolution 0.1 s).  Confidence   *)
(* and threshold are counted in hundredths (0.70 is 70).  Python's None is *)
(* the empty tuple, an optional integer v is <<v>>.  A sleep of            *)
(* check_interval takes one tick.  Labels and button states are functions  *)
(* of running, paused and mode and are not represented.                    *)
(***************************************************************************)
EXTENDS Integers, Sequences, FiniteSets, TLC

\* ---------------------------------------------------------------- bounds
\* How long the feedback list grows.
MaxFeedback == 3
\* Number of detection threads ever spawned in a behaviour.
MaxThreads == 2
\* Number of ticks the clock advances past its initial value.
Horizon == 1
\* Largest click cooldown (ticks) a configuration or the slider supplies.
MaxCooldown == 2
\* Size of the full screen raster returned by ImageGrab.grab().
ScreenW == 640
ScreenH == 480

\* ------------------------------------------------------ program constants
PausePoll == 1          \* time.sleep(0.5): one tick
CountdownSeconds == 3   \* countdown(3)
DefaultThreshold == 70  \* self.match_threshold = 0.7
DefaultCooldown == 2    \* self.click_cooldown = 1.0: two ticks
DefaultInterval == 1    \* self.check_interval = 0.3: one tick

\* ---------------------------------------------------------------- values
None == <<>>
Some(v) == <<v>>
\* None where the other values are strings (self.mode).
NoMode == "None"
\* Python truthiness of an optional integer: None and 0 are false.
Truthy(o) == o # None /\ o[1] # 0

Modes == {"elemental", "physical"}
Classes == {6, 5, 4}

\* time.time() at program start; last_click_time = 0 lies at least one
\* cooldown before it.
Epoch == MaxCooldown + 1
Times == Epoch .. (Epoch + Horizon)

Max(a, b) == IF a >= b THEN a ELSE b
Min(a, b) == IF a <= b THEN a ELSE b

\* ------------------------------------------------------------- templates
\* A template file is missing, unreadable (cv2.imread gives None) or an
\* image of some shape.
NoConfig == [kind |-> "missing"]
\* A JSON list (a Python list) of the given items, as distinct from the
\* tuple of the same items; JSON null is None.
JsonList(items) == <<items>>
\* A conversion that takes a leading 0 for "not set".
ListOrNull_zero_is_null(v) == IF v # None /\ v[1] # 0 THEN JsonList(v) ELSE None
\* list(v) if v else None, for a tuple or None.
ListOrNull(v) == IF v # None THEN JsonList(v) ELSE None
\* tuple(l) of a list.
TupleOf(l) == l[1]
\* The truth value of a list or None: a non-empty list.
NonEmpty(l) == l # None /\ l[1] # <<>>
\* len(l) of a list.
LenOf(l) == Len(l[1])
\* A get that never finds the key.
Get_always_default(config, key, default) == default
\* config.get(key, default) on the object read from the file.
Get(config, key, default) == IF key \in DOMAIN config THEN config[key] ELSE default
Missing == [kind |-> "missing"]
Unreadable == [kind |-> "unreadable"]
Image(w, h) == [kind |-> "image", w |-> w, h |-> h]
TemplatePaths == Modes \X Classes

\* The order in which load_templates goes through the six paths.
PathOrder ==
    << <<"elemental", 6>>, <<"elemental", 5>>, <<"elemental", 4>>,
       <<"physical", 6>>, <<"physical", 5>>, <<"physical", 4>> >>
PlaceOf(p) == CHOOSE i \in 1 .. 6 : PathOrder[i] = p

\* Loading that ends at the first file it cannot read.
load_templates_until_failure(fs) ==
    [m \in Modes |->
        [c \in Classes |->
            IF \E i \in 1 .. PlaceOf(<<m, c>>) : fs[PathOrder[i]].kind # "image"
            THEN <<>>
            ELSE << [id |-> <<m, c>>, w |-> fs[<<m, c>>].w, h |-> fs[<<m, c>>].h] >>]]

\* load_templates: each of the six lists receives the one image of its path
\* when the file exists and can be decoded.
load_templates(fs) ==
    [m \in Modes |->
        [c \in Classes |->
            IF fs[<<m, c>>].kind # "image"
            THEN <<>>
            ELSE << [id |-> <<m, c>>, w |-> fs[<<m, c>>].w, h |-> fs[<<m, c>>].h] >>]]

\* -------------------------------------------------- detect_with_templates
\* The raster captured for a detection region (or the full screen) and the
\* offset of its top-left corner.
Capture_without_offset(detection_region) ==
    IF detection_region # None
    THEN [w |-> detection_region[3], h |-> detection_region[4], ox |-> 0, oy |-> 0]
    ELSE [w |-> ScreenW, h |-> ScreenH, ox |-> 0, oy |-> 0]
Capture(detection_region) ==
    IF detection_region # None
    THEN [w |-> detection_region[3], h |-> detection_region[4],
          ox |-> detection_region[1], oy |-> detection_region[2]]
    ELSE [w |-> ScreenW, h |-> ScreenH, ox |-> 0, oy |-> 0]

\* What one screen offers a capture: whether the grab succeeds, the best
\* correlation (value and place) of every template, and what the OCR engine
\* answers on the two candidate rectangles.
NoBest == [raised |-> FALSE, conf |-> 0, loc |-> None, match |-> None]

\* The loop over the templates of one class: cv2.matchTemplate raises when
\* the template is larger than the raster; a strictly better max_val
\* replaces the best so far, which starts at 0.0 with no location.
RECURSIVE ScanTemplates(_, _, _, _, _)
ScanTemplates(tpls, i, gray, screen, best) ==
    IF i > Len(tpls) \/ best.raised THEN best
    ELSE LET tpl == tpls[i] IN
         IF tpl.w > gray.w \/ tpl.h > gray.h
         THEN [best EXCEPT !.raised = TRUE]
         ELSE LET r == screen.match[tpl.id] IN
              IF r.val > best.conf
              THEN ScanTemplates(tpls, i + 1, gray, screen,
                       [raised |-> FALSE, conf |-> r.val,
                        loc |-> <<r.x, r.y>>, match |-> <<tpl>>])
              ELSE ScanTemplates(tpls, i + 1, gray, screen, best)

NoDetection ==
    [raised |-> FALSE, detected |-> FALSE, detected_number |-> None,
     click_x |-> None, click_y |-> None, confidence |-> 0]
Raised == [NoDetection EXCEPT !.raised = TRUE]

\* One priority class accepted on any match, whatever the threshold.
CheckClass_accepts_any(number, tpls, gray, screen, threshold) ==
    IF Len(tpls) = 0 THEN NoDetection
    ELSE LET best == ScanTemplates(tpls, 1, gray, screen, NoBest) IN
         IF best.raised THEN Raised
         ELSE IF best.loc # None
         THEN [raised |-> FALSE, detected |-> TRUE,
               detected_number |-> Some(number),
               click_x |-> Some(best.loc[1] + (best.match[1].w \div 2) + gray.ox),
               click_y |-> Some(best.loc[2] + (best.match[1].h \div 2) + gray.oy),
               confidence |-> best.conf]
         ELSE NoDetection

\* One priority class: skipped when its list is empty; accepted when the
\* best confidence reaches the threshold, and then best_loc[0] raises a
\* TypeError if no template ever beat 0.0.
CheckClass(number, tpls, gray, screen, threshold) ==
    IF Len(tpls) = 0 THEN NoDetection
    ELSE LET best == ScanTemplates(tpls, 1, gray, screen, NoBest) IN
         IF best.raised THEN Raised
         ELSE IF best.conf >= threshold
         THEN IF best.loc = None THEN Raised
              ELSE [raised |-> FALSE, detected |-> TRUE,
                    detected_number |-> Some(number),
                    click_x |-> Some(best.loc[1] + (best.match[1].w \div 2) + gray.ox),
                    click_y |-> Some(best.loc[2] + (best.match[1].h \div 2) + gray.oy),
                    confidence |-> best.conf]
         ELSE NoDetection

\* The two candidate rectangles of the OCR fallback.
regions_to_check(screen_width, screen_height) ==
    << <<screen_width \div 2, (screen_height \div 2) - 100, 200, 100>>,
       <<screen_width - 300, (screen_height \div 2) - 100, 250, 150>> >>

Whitespace == {" ", "\n"}
\* str.strip(): leading and trailing whitespace removed.
RECURSIVE LStrip(_)
LStrip(text) ==
    IF text # <<>> /\ Head(text) \in Whitespace THEN LStrip(Tail(text)) ELSE text
RECURSIVE RStrip(_)
RStrip(text) ==
    IF text # <<>> /\ text[Len(text)] \in Whitespace
    THEN RStrip(SubSeq(text, 1, Len(text) - 1)) ELSE text
Strip(text) == RStrip(LStrip(text))

\* int(char) for the three target characters.
IntOfChar(char) == CASE char = "6" -> 6 [] char = "5" -> 5 [] char = "4" -> 4

\* Index of the first character of chars that is '6', '5' or '4'; 0 if none.
FirstTarget(chars) ==
    LET hits == {i \in 1 .. Len(chars) : chars[i] \in {"6", "5", "4"}} IN
    IF hits = {} THEN 0 ELSE CHOOSE i \in hits : \A j \in hits : i <= j

\* The OCR fallback: one try block around the loop over the rectangles, so
\* an engine failure on a rectangle ends the scan with no detection.
RECURSIVE OcrScan(_, _, _)
OcrScan(i, gray, screen) ==
    LET regs == regions_to_check(gray.w, gray.h) IN
    IF i > Len(regs) THEN NoDetection
    ELSE LET w == regs[i][3]
             h == regs[i][4]
             x == Max(0, Min(regs[i][1], gray.w - w))
             y == Max(0, Min(regs[i][2], gray.h - h))
             answer == screen.ocr[i]
         IN  IF ~answer.ok THEN NoDetection
             ELSE LET chars == Strip(answer.text)
                      k == FirstTarget(chars)
                  IN  IF k # 0
                      THEN [raised |-> FALSE, detected |-> TRUE,
                            detected_number |-> Some(IntOfChar(chars[k])),
                            click_x |-> Some(x + (w \div 2) + gray.ox),
                            click_y |-> Some(y + (h \div 2) + gray.oy),
                            confidence |-> 0]
                      ELSE OcrScan(i + 1, gray, screen)

\* detect_with_templates: capture, classes 6, 5, 4 in that order, then the
\* OCR fallback.  An exception of the capture or of the matching leaves the
\* function (result Raised).
detect_with_templates(templates_6, templates_5, templates_4, detection_region, threshold, screen) ==
    IF ~screen.grab THEN Raised
    ELSE LET gray == Capture(detection_region)
             r6 == CheckClass(6, templates_6, gray, screen, threshold)
             r5 == CheckClass(5, templates_5, gray, screen, threshold)
             r4 == CheckClass(4, templates_4, gray, screen, threshold)
         IN  IF r6.raised \/ r6.detected THEN r6
             ELSE IF r5.raised \/ r5.detected THEN r5
             ELSE IF r4.raised \/ r4.detected THEN r4
             ELSE OcrScan(1, gray, screen)


\* ----------------------------------------------------------------- state
VARIABLES
    \* ElementalAttackDetector attributes
    running, paused, mode, detection_thread,
    match_threshold, click_cooldown, check_interval, click_coordinates,
    elemental_detection_region, physical_detection_region,
    last_detection, templates,
    \* the settings dialog: the window and the pending countdown callback
    \* of a calibration
    settings_window, countdown, seconds, selected_mode, top_left,
    \* the detection threads: position in detect_elemental/detect_physical,
    \* which of the two functions the thread runs, and its locals
    pc, kind, current_time, last_click_time, detection_count, wake,
    \* how the last pass of a loop body ended (what it printed)
    outcome,
    \* the environment: the clock, and the last click pyautogui performed
    \* (who issued it, when, and where)
    now, clicks,
    \* detector_config.json, and the feedback history
    config_file, feedback_data,
    \* what last_detection_label shows, whether the two feedback buttons are
    \* enabled, and the update_detection_ui calls root.after has pending
    shown, buttons, after_queue,
    \* history: whether an entry of the feedback list has been made from the
    \* stored detection since the thread stored it
    rated,
    \* the program has quit
    exited,
    \* a detection thread between the two arguments of its click: the
    \* result of the detection and the first argument it has read
    held,
    \* a function of the program applied on its own: its arguments and
    \* what it returned
    args, result

ctrlVars == <<running, paused, mode, detection_thread>>
settingVars == <<match_threshold, click_cooldown, check_interval, click_coordinates,
                 elemental_detection_region, physical_detection_region>>
dialogVars == <<settings_window, countdown, seconds, selected_mode, top_left>>
threadVars == <<pc, kind, current_time, last_click_time, detection_count, wake, outcome,
                held>>
callVars == <<args, result>>
uiVars == <<shown, buttons, after_queue, rated>>
vars == <<ctrlVars, settingVars, dialogVars, threadVars, last_detection, templates, feedback_data, uiVars, config_file, exited, callVars,
          now, clicks>>

Threads == 1 .. MaxThreads

\* Values the sliders and a stored configuration supply.
ThresholdValues == {DefaultThreshold}
CooldownValues == 1 .. MaxCooldown
IntervalValues == {1}
\* Where the pointer may be when a countdown captures it.
PointerPositions == {<<0, 0>>, <<40, 30>>}

\* The template files of the installation: a one-pixel elemental 6, larger
\* 5 and 4, and for physical a missing 6, an undecodable 5 and a 4.
TemplateFiles ==
    [p \in TemplatePaths |->
        CASE p = <<"elemental", 6>> -> Image(1, 1)
          [] p = <<"elemental", 5>> -> Image(4, 4)
          [] p = <<"elemental", 4>> -> Image(4, 4)
          [] p = <<"physical", 6>> -> Missing
          [] p = <<"physical", 5>> -> Unreadable
          [] p = <<"physical", 4>> -> Image(4, 4)]

\* Screens the capture may meet: per class the best correlation and its
\* place, the OCR answers on the two rectangles, and whether the grab works.
MkScreen(val, loc, ocr1, grab) ==
    [grab |-> grab,
     match |-> [p \in TemplatePaths |->
                   [val |-> val[p[2]], x |-> loc[p[2]][1], y |-> loc[p[2]][2]]],
     ocr |-> << ocr1, [ok |-> TRUE, text |-> <<>>] >>]
Origin == [c \in Classes |-> <<0, 0>>]
NoText == [ok |-> TRUE, text |-> <<"\n">>]
Screens ==
    { MkScreen([c \in Classes |-> 0], Origin, NoText, TRUE),
      MkScreen([c \in Classes |-> IF c = 6 THEN 90 ELSE 0], Origin, NoText, TRUE),
      MkScreen([c \in Classes |-> IF c = 4 THEN 80 ELSE 0],
               [c \in Classes |-> <<3, 2>>], NoText, TRUE),
      MkScreen([c \in Classes |-> 0], Origin, [ok |-> FALSE, text |-> <<>>], TRUE),
      MkScreen([c \in Classes |-> 0], Origin, NoText, FALSE) }

\* cv2.minMaxLoc reports a place inside the correlation map.
ValidScreen(screen, gray, tpls) ==
    \A c \in Classes : \A i \in 1 .. Len(tpls[c]) :
        LET tpl == tpls[c][i]
            r == screen.match[tpl.id]
        IN  (tpl.w <= gray.w /\ tpl.h <= gray.h)
                => (r.x <= gray.w - tpl.w /\ r.y <= gray.h - tpl.h)

\* ------------------------------------------------------------------ Init
\* create_ui: the label says "None", both feedback buttons are disabled,
\* and nothing is scheduled.
InitUi ==
    /\ shown = None
    /\ buttons = FALSE
    /\ after_queue = <<>>
    /\ rated = FALSE

\* __init__: the flags, the stored detection and the file on disk.
InitController ==
    /\ running = FALSE
    /\ paused = FALSE
    /\ detection_thread = 0
    /\ mode = NoMode
    /\ last_detection = None
    /\ feedback_data = JsonList(<<>>)
    /\ InitUi
    /\ config_file = NoConfig
    /\ exited = FALSE

\* __init__: the settings.
InitSettings ==
    /\ click_coordinates = None
    /\ elemental_detection_region = None
    /\ physical_detection_region = None
    /\ match_threshold = DefaultThreshold
    /\ click_cooldown = DefaultCooldown
    /\ check_interval \in IntervalValues

\* No settings dialog yet.
InitDialog ==
    /\ settings_window = "closed"
    /\ countdown = "none"
    /\ seconds = 0
    /\ selected_mode = NoMode
    /\ top_left = None

\* No detection thread yet; the clock and the screen's clicks.
InitThreads ==
    /\ held = [t \in Threads |-> None]
    /\ pc = [t \in Threads |-> "unborn"]
    /\ kind = [t \in Threads |-> NoMode]
    /\ current_time = [t \in Threads |-> 0]
    /\ last_click_time = [t \in Threads |-> 0]
    /\ detection_count = [t \in Threads |-> 0]
    /\ wake = [t \in Threads |-> 0]
    /\ outcome = "none"
    /\ now = Epoch
    /\ clicks = <<>>

InitProgram ==
    /\ InitController
    /\ InitSettings
    /\ InitDialog
    /\ InitThreads
    /\ templates = load_templates(TemplateFiles)

\* The program as constructed, no function being applied on its own.
Init ==
    /\ InitProgram
    /\ args = None
    /\ result = None


\* ------------------------------------------------------- the controller
\* The handlers and the threads run while the program does: each action
\* has ~exited for its first guard.
\* Whether open(CONFIG_FILE, 'w') and json.dump succeed: either, or what
\* the operation applied on its own was given.
WriteOutcomes ==
    IF args # None /\ "disk_ok" \in DOMAIN args THEN {args.disk_ok} ELSE BOOLEAN

\* save_config, called once the attributes have their new values: the
\* settings go to detector_config.json, or the write fails, which is
\* printed, and the file is as it was.
save_config(written) ==
    config_file' =
        IF written
        THEN [kind |-> "json",
              match_threshold |-> match_threshold',
              click_cooldown |-> click_cooldown',
              check_interval |-> check_interval',
              click_coordinates |-> ListOrNull(click_coordinates'),
              elemental_detection_region |-> ListOrNull(elemental_detection_region'),
              physical_detection_region |-> ListOrNull(physical_detection_region'),
              feedback_data |-> feedback_data']
        ELSE config_file

\* threading.Thread(target=..., daemon=True).start(): the next thread, with
\* the locals of its function at their first values.
Spawn(t, m) ==
    /\ pc' = [pc EXCEPT ![t] = "loop"]
    /\ kind' = [kind EXCEPT ![t] = m]
    /\ detection_count' = [detection_count EXCEPT ![t] = 0]
    /\ last_click_time' = [last_click_time EXCEPT ![t] = 0]
    /\ UNCHANGED <<current_time, wake, outcome, held>>

\* start without its test of self.running.
start_unguarded(m) ==
    /\ ~exited
    /\ detection_thread < MaxThreads
    /\ running' = TRUE
    /\ paused' = FALSE
    /\ mode' = m
    /\ detection_thread' = detection_thread + 1
    /\ Spawn(detection_thread + 1, m)
    /\ UNCHANGED <<settingVars, dialogVars, last_detection, templates, feedback_data, uiVars, config_file, exited, callVars, now, clicks>>

\* start_elemental / start_physical (m is the mode the button stands for).
start(m) ==
    /\ ~exited
    /\ IF ~running
       THEN /\ detection_thread < MaxThreads
            /\ running' = TRUE
            /\ paused' = FALSE
            /\ mode' = m
            /\ detection_thread' = detection_thread + 1
            /\ Spawn(detection_thread + 1, m)
       ELSE UNCHANGED <<ctrlVars, threadVars>>
    /\ UNCHANGED <<settingVars, dialogVars, last_detection, templates, feedback_data, uiVars, config_file, exited, callVars, now, clicks>>

start_elemental == start("elemental")
start_physical == start("physical")

\* stop_detection without self.paused = False.
stop_detection_keeps_paused ==
    /\ ~exited
    /\ IF running
       THEN /\ running' = FALSE
            /\ mode' = NoMode
       ELSE UNCHANGED <<running, mode>>
    /\ UNCHANGED <<paused, detection_thread, settingVars, dialogVars, threadVars,
                   last_detection, templates, feedback_data, uiVars, config_file, exited, callVars, now, clicks>>

stop_detection ==
    /\ ~exited
    /\ IF running
       THEN /\ running' = FALSE
            /\ paused' = FALSE
            /\ mode' = NoMode
       ELSE UNCHANGED <<running, paused, mode>>
    /\ UNCHANGED <<detection_thread, settingVars, dialogVars, threadVars,
                   last_detection, templates, feedback_data, uiVars, config_file, exited, callVars, now, clicks>>

\* toggle_pause without 'if self.running'.
toggle_pause_unguarded ==
    /\ ~exited
    /\ paused' = ~paused
    /\ UNCHANGED <<running, mode, detection_thread, settingVars, dialogVars,
                   threadVars, last_detection, templates, feedback_data, uiVars, config_file, exited, callVars, now, clicks>>

toggle_pause ==
    /\ ~exited
    /\ IF running
       THEN paused' = ~paused
       ELSE UNCHANGED paused
    /\ UNCHANGED <<running, mode, detection_thread, settingVars, dialogVars,
                   threadVars, last_detection, templates, feedback_data, uiVars, config_file, exited, callVars, now, clicks>>

\* stop_program (Ctrl+F): running is cleared, the configuration is saved
\* and the Tk root is destroyed, the dialog and its pending callbacks with
\* it; mainloop returns and the process ends.
stop_program ==
    /\ ~exited
    /\ running' = FALSE
    /\ UNCHANGED <<settingVars, feedback_data>>
    /\ \E written \in WriteOutcomes : save_config(written)
    /\ exited' = TRUE
    /\ settings_window' = "closed"
    /\ countdown' = "none"
    /\ seconds' = 0
    /\ selected_mode' = NoMode
    /\ top_left' = None
    /\ UNCHANGED <<paused, mode, detection_thread, threadVars, last_detection,
                   templates, uiVars, now, clicks, callVars>>

\* ---------------------------------------------------- the settings dialog
\* open_settings: refused while running; otherwise the window opens with
\* the sliders at the current values.  One dialog is open at a time.
open_settings ==
    /\ ~exited
    /\ IF running
       THEN UNCHANGED dialogVars
       ELSE /\ settings_window = "closed"
            /\ settings_window' = "open"
            /\ UNCHANGED <<countdown, seconds, selected_mode, top_left>>
    /\ UNCHANGED <<ctrlVars, settingVars, threadVars, last_detection, templates, feedback_data, uiVars, config_file, exited, callVars,
                   now, clicks>>

\* save_settings (the Save button): the three settings take the values the
\* sliders hold, which are the values at open_settings or wherever the
\* operator dragged them since.
save_settings ==
    /\ ~exited
    /\ settings_window = "open"
    /\ \E th \in ThresholdValues, cd \in CooldownValues, iv \in IntervalValues :
          /\ match_threshold' = th
          /\ click_cooldown' = cd
          /\ check_interval' = iv
    /\ UNCHANGED <<click_coordinates, elemental_detection_region,
                   physical_detection_region, feedback_data>>
    /\ \E written \in WriteOutcomes : save_config(written)
    /\ settings_window' = "closed"
    /\ UNCHANGED <<countdown, seconds, selected_mode, top_left, ctrlVars,
                   threadVars, last_detection, templates, uiVars, now, clicks, exited, callVars>>

\* The Cancel button: settings_window.destroy.
cancel_settings ==
    /\ ~exited
    /\ settings_window = "open"
    /\ settings_window' = "closed"
    /\ UNCHANGED <<countdown, seconds, selected_mode, top_left, ctrlVars, settingVars, threadVars,
                   last_detection, templates, feedback_data, uiVars, config_file, exited, callVars, now, clicks>>

\* set_click_position: hides the dialog and runs countdown(3), which leaves
\* countdown(2) scheduled.
set_click_position ==
    /\ ~exited
    /\ settings_window = "open"
    /\ settings_window' = "withdrawn"
    /\ countdown' = "click"
    /\ seconds' = CountdownSeconds - 1
    /\ UNCHANGED <<selected_mode, top_left,
                   ctrlVars, settingVars, threadVars, last_detection, templates, feedback_data, uiVars, config_file, exited, callVars,
                   now, clicks>>

\* The scheduled countdown(seconds) of set_click_position.
countdown_click ==
    /\ ~exited
    /\ countdown = "click"
    /\ IF seconds > 0
       THEN /\ seconds' = seconds - 1
            /\ UNCHANGED <<click_coordinates, countdown, settings_window>>
       ELSE /\ \E p \in PointerPositions : click_coordinates' = p
            /\ countdown' = "none"
            /\ settings_window' = "open"
            /\ UNCHANGED seconds
    /\ UNCHANGED <<match_threshold, click_cooldown, check_interval,
                   elemental_detection_region, physical_detection_region,
                   selected_mode, top_left,
                   ctrlVars, threadVars, last_detection, templates, feedback_data, uiVars, config_file, exited, callVars, now, clicks>>

\* set_detection_region: reads the mode radio button, hides the dialog and
\* runs countdown1(3).
set_detection_region ==
    /\ ~exited
    /\ settings_window = "open"
    /\ \E m \in Modes : selected_mode' = m
    /\ settings_window' = "withdrawn"
    /\ top_left' = None
    /\ countdown' = "step1"
    /\ seconds' = CountdownSeconds - 1
    /\ UNCHANGED <<ctrlVars, settingVars, threadVars, last_detection, templates, feedback_data, uiVars, config_file, exited, callVars,
                   now, clicks>>

\* The scheduled countdown1(seconds): at 0 the first corner is captured and
\* countdown2(3) runs.  p is what pyautogui.position() returns.
countdown1_reads(p) ==
    /\ ~exited
    /\ countdown = "step1"
    /\ IF seconds > 0
       THEN /\ seconds' = seconds - 1
            /\ UNCHANGED <<top_left, countdown>>
       ELSE /\ top_left' = p
            /\ countdown' = "step2"
            /\ seconds' = CountdownSeconds - 1
    /\ UNCHANGED <<settings_window, selected_mode, ctrlVars, settingVars, threadVars, last_detection,
                   templates, feedback_data, uiVars, config_file, exited, now, clicks>>

countdown1 ==
    /\ \E p \in PointerPositions : countdown1_reads(p)
    /\ UNCHANGED callVars

\* The rectangle from the first corner to the second, taken in that order.
RegionOf_unordered(a, b) ==
    IF b[1] - a[1] > 0 /\ b[2] - a[2] > 0
    THEN <<a[1], a[2], b[1] - a[1], b[2] - a[2]>>
    ELSE None

\* The rectangle of two corners, flat ones accepted.
RegionOf_accepts_flat(a, b) ==
    <<Min(a[1], b[1]), Min(a[2], b[2]),
      Max(a[1], b[1]) - Min(a[1], b[1]), Max(a[2], b[2]) - Min(a[2], b[2])>>

\* The rectangle spanned by two pointer positions, or None when it has no
\* width or no height ("Invalid region!").
RegionOf(a, b) ==
    LET x1 == Min(a[1], b[1])
        y1 == Min(a[2], b[2])
        x2 == Max(a[1], b[1])
        y2 == Max(a[2], b[2])
        width == x2 - x1
        height == y2 - y1
    IN  IF width > 0 /\ height > 0 THEN <<x1, y1, width, height>> ELSE None

\* The message box countdown2 shows for the two corners.
Shown(a, b) == IF RegionOf(a, b) # None THEN "Success" ELSE "Error"

\* The scheduled countdown2(seconds): at 0 the second corner is captured
\* and the region of the selected mode is set, or the error is shown.  p
\* is what pyautogui.position() returns.
countdown2_reads(p) ==
    /\ ~exited
    /\ countdown = "step2"
    /\ IF seconds > 0
       THEN /\ seconds' = seconds - 1
            /\ UNCHANGED <<elemental_detection_region, physical_detection_region,
                           countdown, settings_window, selected_mode, top_left>>
       ELSE /\ LET region == RegionOf(top_left, p) IN
                 IF region # None
                 THEN IF selected_mode = "elemental"
                      THEN /\ elemental_detection_region' = region
                           /\ UNCHANGED physical_detection_region
                      ELSE /\ physical_detection_region' = region
                           /\ UNCHANGED elemental_detection_region
                 ELSE UNCHANGED <<elemental_detection_region, physical_detection_region>>
            /\ countdown' = "none"
            /\ settings_window' = "open"
            /\ selected_mode' = NoMode
            /\ top_left' = None
            /\ UNCHANGED seconds
    /\ UNCHANGED <<match_threshold, click_cooldown, check_interval, click_coordinates,
                   ctrlVars, threadVars, last_detection, templates, feedback_data, uiVars, config_file, exited, now, clicks>>

countdown2 ==
    /\ \E p \in PointerPositions : countdown2_reads(p)
    /\ UNCHANGED callVars


\* ------------------------------------------------- the detection threads
\* detect_elemental and detect_physical are the same loop over the
\* templates and the region of their mode; kind[t] says which one t runs.
RegionOfMode(m) ==
    IF m = "elemental" THEN elemental_detection_region ELSE physical_detection_region

Alive(t) == pc[t] \notin {"unborn", "done"}

\* The top of the loop without the test of self.paused.
LoopTop_ignores_pause(t) ==
    /\ ~exited
    /\ pc[t] = "loop"
    /\ IF ~running
       THEN /\ pc' = [pc EXCEPT ![t] = "done"]
            /\ kind' = [kind EXCEPT ![t] = NoMode]
            /\ last_click_time' = [last_click_time EXCEPT ![t] = 0]
            /\ detection_count' = [detection_count EXCEPT ![t] = 0]
            /\ UNCHANGED <<wake, current_time>>
       ELSE /\ pc' = [pc EXCEPT ![t] = "detect"]
            /\ current_time' = [current_time EXCEPT ![t] = now]
            /\ UNCHANGED <<kind, last_click_time, detection_count, wake>>
    /\ UNCHANGED <<outcome, held, ctrlVars, settingVars, dialogVars, last_detection,
                   templates, feedback_data, uiVars, config_file, exited, callVars, now, clicks>>

\* The top of the loop.  while self.running: when the test fails the
\* function returns and its locals are gone.  if self.paused: the thread
\* sleeps 0.5 s and comes back to the top; otherwise the pass begins with
\* current_time = time.time().
LoopTop(t) ==
    /\ ~exited
    /\ pc[t] = "loop"
    /\ IF ~running
       THEN /\ pc' = [pc EXCEPT ![t] = "done"]
            /\ kind' = [kind EXCEPT ![t] = NoMode]
            /\ last_click_time' = [last_click_time EXCEPT ![t] = 0]
            /\ detection_count' = [detection_count EXCEPT ![t] = 0]
            /\ UNCHANGED <<wake, current_time>>
       ELSE IF paused
       THEN /\ pc' = [pc EXCEPT ![t] = "pause_sleep"]
            /\ wake' = [wake EXCEPT ![t] = now + PausePoll]
            /\ UNCHANGED <<kind, last_click_time, detection_count, current_time>>
       ELSE /\ pc' = [pc EXCEPT ![t] = "detect"]
            /\ current_time' = [current_time EXCEPT ![t] = now]
            /\ UNCHANGED <<kind, last_click_time, detection_count, wake>>
    /\ UNCHANGED <<outcome, held, ctrlVars, settingVars, dialogVars, last_detection,
                   templates, feedback_data, uiVars, config_file, exited, callVars, now, clicks>>

\* The result of detect_with_templates for thread t on a screen.
Detection(t, screen) ==
    detect_with_templates(templates[kind[t]][6], templates[kind[t]][5],
                          templates[kind[t]][4], RegionOfMode(kind[t]),
                          match_threshold, screen)

\* Where the click goes: the stored position if one is set, else the
\* detected location.
ClickTarget(d) ==
    IF click_coordinates # None
    THEN click_coordinates
    ELSE <<d.click_x[1], d.click_y[1]>>

\* The cooldown measured from the start of the program, not from the
\* last click.
CooldownPassed_since_start(t) == current_time[t] >= click_cooldown

\* The click condition without its cooldown test.
CooldownPassed_always(t) == TRUE

\* if detected and (current_time - last_click_time) >= self.click_cooldown
CooldownPassed(t) == (current_time[t] - last_click_time[t]) >= click_cooldown

\* if click_x and click_y:
Clickable(d) == Truthy(d.click_x) /\ Truthy(d.click_y)

\* A pass without the except clause: an exception ends the thread.
PassEnd_uncaught(t, exception) ==
    /\ pc' = [pc EXCEPT ![t] = IF exception THEN "done" ELSE "sleep"]
    /\ wake' = [wake EXCEPT ![t] = IF exception THEN 0 ELSE now + check_interval]
    /\ current_time' = [current_time EXCEPT ![t] = 0]

\* How a pass ends: an exception raised inside the try block is caught and
\* printed, and with or without one the thread goes on to
\* time.sleep(self.check_interval).  current_time is not read again before
\* the next pass assigns it.
PassEnd(t, exception) ==
    /\ pc' = [pc EXCEPT ![t] = "sleep"]
    /\ wake' = [wake EXCEPT ![t] = now + check_interval]
    /\ current_time' = [current_time EXCEPT ![t] = 0]

\* What root.after(0, ...) holds for the main loop after a click: the
\* arguments of update_detection_ui that the label shows (number, mode and
\* confidence).
Deferred(d, m) == <<d.detected_number[1], m, d.confidence>>

\* The try block of one pass and the sleep after it: detection, then the
\* click if something was detected and the cooldown has passed.  click_ok
\* is whether pyautogui.click returns (or raises).
CycleBody(t, screen, click_ok) ==
    /\ ~exited
    /\ pc[t] = "detect"
    /\ ValidScreen(screen, Capture(RegionOfMode(kind[t])), templates[kind[t]])
    /\ LET d == Detection(t, screen) IN
       IF d.raised
       THEN /\ outcome' = "error"
            /\ PassEnd(t, TRUE)
            /\ UNCHANGED <<detection_count, last_click_time, last_detection, clicks,
                           after_queue, rated>>
       ELSE IF d.detected /\ CooldownPassed(t)
       THEN IF Clickable(d)
            THEN /\ detection_count' = [detection_count EXCEPT ![t] = @ + 1]
                 /\ IF click_ok
                    THEN /\ clicks' = << [by |-> t, at |-> now,
                                         x |-> ClickTarget(d)[1], y |-> ClickTarget(d)[2]] >>
                         /\ last_click_time' = [last_click_time EXCEPT ![t] = current_time[t]]
                         /\ last_detection' = <<d.detected_number[1], kind[t],
                                                d.confidence, current_time[t]>>
                         /\ after_queue' = Append(after_queue, Deferred(d, kind[t]))
                         /\ rated' = FALSE
                         /\ outcome' = "clicked"
                         /\ PassEnd(t, FALSE)
                    ELSE /\ outcome' = "error"
                         /\ PassEnd(t, TRUE)
                         /\ UNCHANGED <<last_click_time, last_detection, clicks, after_queue,
                                        rated>>
            ELSE /\ outcome' = "cannot_click"
                 /\ PassEnd(t, FALSE)
                 /\ UNCHANGED <<detection_count, last_click_time, last_detection, clicks,
                                after_queue, rated>>
       ELSE /\ outcome' = IF d.detected THEN "cooldown" ELSE "none"
            /\ PassEnd(t, FALSE)
            /\ UNCHANGED <<detection_count, last_click_time, last_detection, clicks,
                           after_queue, rated>>
    /\ UNCHANGED <<kind, held, ctrlVars, settingVars, dialogVars, templates, feedback_data,
                   shown, buttons, config_file, exited, callVars, now>>

Cycle(t) == \E screen \in Screens, click_ok \in BOOLEAN : CycleBody(t, screen, click_ok)

\* The pass in the steps the interpreter can be preempted at.  The thread
\* reads self.click_coordinates without a lock, once for the test and once
\* for each argument of pyautogui.click, and the Tk thread may assign the
\* attribute in between.
\* The pass goes to its click: detection, cooldown and coordinate tests, the
\* counter, the test of self.click_coordinates and the first argument.
PassToClick(t, screen) ==
    /\ ~exited
    /\ pc[t] = "detect"
    /\ ValidScreen(screen, Capture(RegionOfMode(kind[t])), templates[kind[t]])
    /\ LET d == Detection(t, screen) IN
          /\ ~d.raised /\ d.detected /\ CooldownPassed(t) /\ Clickable(d)
          /\ detection_count' = [detection_count EXCEPT ![t] = @ + 1]
          /\ held' = [held EXCEPT ![t] =
                        Some([d |-> d,
                              first |-> IF click_coordinates # None
                                        THEN Some(click_coordinates[1])
                                        ELSE None])]
    /\ pc' = [pc EXCEPT ![t] = "click"]
    /\ UNCHANGED <<kind, current_time, last_click_time, wake, outcome, ctrlVars,
                   settingVars, dialogVars, last_detection, templates, feedback_data, uiVars, config_file,
                   exited, callVars, now, clicks>>

\* Where the click of a preempted pass goes: the first argument as read,
\* the second as self.click_coordinates has it now.
HeldTarget(t) ==
    IF held[t][1].first # None
    THEN <<held[t][1].first[1], click_coordinates[2]>>
    ELSE <<held[t][1].d.click_x[1], held[t][1].d.click_y[1]>>

\* The second argument, the click, and the rest of the pass.
ClickCall(t, click_ok) ==
    /\ ~exited
    /\ pc[t] = "click"
    /\ IF click_ok
       THEN /\ clicks' = << [by |-> t, at |-> now,
                            x |-> HeldTarget(t)[1], y |-> HeldTarget(t)[2]] >>
            /\ last_click_time' = [last_click_time EXCEPT ![t] = current_time[t]]
            /\ last_detection' = <<held[t][1].d.detected_number[1], kind[t],
                                   held[t][1].d.confidence, current_time[t]>>
            /\ after_queue' = Append(after_queue, Deferred(held[t][1].d, kind[t]))
            /\ rated' = FALSE
            /\ outcome' = "clicked"
            /\ PassEnd(t, FALSE)
       ELSE /\ outcome' = "error"
            /\ PassEnd(t, TRUE)
            /\ UNCHANGED <<last_click_time, last_detection, clicks, after_queue, rated>>
    /\ held' = [held EXCEPT ![t] = None]
    /\ UNCHANGED <<kind, detection_count, ctrlVars, settingVars, dialogVars,
                   templates, feedback_data, shown, buttons, config_file, exited, callVars, now>>

\* A pass that does not come to a click.
PassNoClick(t, screen) ==
    /\ CycleBody(t, screen, TRUE)
    /\ LET d == Detection(t, screen) IN
          d.raised \/ ~d.detected \/ ~CooldownPassed(t) \/ ~Clickable(d)

\* The sleep of the paused poll never returns.
Wake_not_from_pause(t) ==
    /\ ~exited
    /\ pc[t] = "sleep"
    /\ now >= wake[t]
    /\ pc' = [pc EXCEPT ![t] = "loop"]
    /\ wake' = [wake EXCEPT ![t] = 0]
    /\ UNCHANGED <<kind, held, current_time, last_click_time, detection_count, outcome,
                   ctrlVars, settingVars, dialogVars, last_detection, templates, feedback_data, uiVars, config_file, exited, callVars,
                   now, clicks>>

\* time.sleep returns once its duration has passed; the thread is back at
\* the top of the loop.
Wake(t) ==
    /\ ~exited
    /\ pc[t] \in {"sleep", "pause_sleep"}
    /\ now >= wake[t]
    /\ pc' = [pc EXCEPT ![t] = "loop"]
    /\ wake' = [wake EXCEPT ![t] = 0]
    /\ UNCHANGED <<kind, held, current_time, last_click_time, detection_count, outcome,
                   ctrlVars, settingVars, dialogVars, last_detection, templates, feedback_data, uiVars, config_file, exited, callVars,
                   now, clicks>>

ThreadStep(t) == LoopTop(t) \/ Cycle(t) \/ Wake(t)

\* The clock advances.
Tick ==
    /\ now < Epoch + Horizon
    /\ now' = now + 1
    /\ UNCHANGED <<ctrlVars, settingVars, dialogVars, threadVars, last_detection,
                   templates, feedback_data, uiVars, config_file, exited, callVars, clicks>>

\* ------------------------------------------------------------------ Next
\* The detection threads write none of the controller, settings and dialog
\* variables, and the dialog reads nothing of the threads.  Spec runs the
\* controller and the threads against the clock, with the dialog's Save
\* as the way a setting changes; SpecUI runs the controller with the whole
\* dialog (both calibrations) and the exit, and leaves the threads where
\* they start.  Once the program has quit nothing of it runs.
Commands ==
    \/ start_elemental
    \/ start_physical
    \/ stop_detection
    \/ toggle_pause
    \/ open_settings
    \/ save_settings
    \/ cancel_settings

Next ==
    \/ Commands
    \/ \E t \in Threads : LoopTop(t)
    \/ \E t \in Threads : Cycle(t)
    \/ \E t \in Threads : Wake(t)
    \/ Tick

Spec == Init /\ [][Next]_vars

NextUI ==
    \/ Commands
    \/ set_click_position
    \/ countdown_click
    \/ set_detection_region
    \/ countdown1
    \/ countdown2
    \/ stop_program

SpecUI == Init /\ [][NextUI]_vars

\* The controller and the threads against the clock, the settings as they
\* are at start-up, with the scheduler running every thread that can take
\* a step and time passing.
NextRun ==
    \/ start_elemental
    \/ start_physical
    \/ stop_detection
    \/ toggle_pause
    \/ \E t \in Threads : LoopTop(t)
    \/ \E t \in Threads : Cycle(t)
    \/ \E t \in Threads : Wake(t)
    \/ Tick

\* The controller, the click calibration of the dialog and the threads with
\* the click in its steps; the clock stands, so every thread makes one pass.
NextClick ==
    \/ start_elemental
    \/ start_physical
    \/ stop_detection
    \/ open_settings
    \/ set_click_position
    \/ countdown_click
    \/ \E t \in Threads : LoopTop(t)
    \/ \E t \in Threads, screen \in Screens : PassNoClick(t, screen)
    \/ \E t \in Threads, screen \in Screens : PassToClick(t, screen)
    \/ \E t \in Threads, click_ok \in BOOLEAN : ClickCall(t, click_ok)

SpecClick == Init /\ [][NextClick]_vars

FairSpec ==
    /\ Init
    /\ [][NextRun]_vars
    /\ WF_vars(Tick)
    /\ \A t \in Threads : WF_vars(ThreadStep(t))

\* ----------------------------------- detect_with_templates on its own
\* Templates handed to the function: for each class a small one, a second
\* one, and one wider than any raster.
Small(c) == [id |-> <<c, 1>>, w |-> 4, h |-> 6]
Second(c) == [id |-> <<c, 2>>, w |-> 10, h |-> 10]
Wide(c) == [id |-> <<c, 3>>, w |-> ScreenW + 100, h |-> 10]
TemplateIds == Classes \X {1, 2, 3}

\* Where cv2.minMaxLoc finds the best correlation of each template.
BestPlace(id) ==
    CASE id = <<6, 1>> -> <<10, 10>>
      [] id = <<6, 2>> -> <<3, 0>>
      [] id = <<4, 1>> -> <<7, 5>>
      [] OTHER -> <<0, 0>>

\* A screen by the best correlation of the small and the second class-6
\* template, of the class-5 and the class-4 template, and the answers of
\* the OCR engine on the two rectangles.
DScreen(v6, w6, v5, v4, ocr1, ocr2, grab) ==
    [grab |-> grab,
     match |-> [id \in TemplateIds |->
                   [val |-> CASE id = <<6, 1>> -> v6
                              [] id = <<6, 2>> -> w6
                              [] id[1] = 5 -> v5
                              [] id[1] = 4 -> v4
                              [] OTHER -> 0,
                    x |-> BestPlace(id)[1], y |-> BestPlace(id)[2]]],
     ocr |-> <<ocr1, ocr2>>]

OcrFails == [ok |-> FALSE, text |-> <<>>]
OcrAnswers1 == {OcrFails, NoText, [ok |-> TRUE, text |-> <<" ", "4", "6", "\n">>],
                [ok |-> TRUE, text |-> <<"7", "5">>]}
OcrAnswers2 == {OcrFails, [ok |-> TRUE, text |-> <<>>], [ok |-> TRUE, text |-> <<"6">>]}

DetectScreens ==
    { DScreen(v6, w6, v5, v4, ocr1, ocr2, TRUE) :
         v6 \in {-20, 0, 75, 90}, w6 \in {0, 90}, v5 \in {0, 90},
         v4 \in {-20, 0, 90}, ocr1 \in OcrAnswers1, ocr2 \in OcrAnswers2 }
    \cup { DScreen(90, 0, 0, 0, NoText, OcrFails, FALSE) }

\* Arguments of a call: the three template lists, the region, the
\* threshold (self.match_threshold) and the screen the capture meets.
DetectArgs ==
    { [fn |-> "detect_with_templates",
       templates_6 |-> l6, templates_5 |-> l5, templates_4 |-> l4,
       detection_region |-> reg, threshold |-> th, screen |-> scr] :
         l6 \in {<<>>, <<Small(6)>>, <<Small(6), Second(6)>>, <<Wide(6), Small(6)>>},
         l5 \in {<<>>, <<Small(5)>>},
         l4 \in {<<>>, <<Small(4)>>, <<Wide(4)>>},
         reg \in {None, <<100, 50, 200, 200>>, <<10, 20, 30, 40>>},
         th \in {0, DefaultThreshold},
         scr \in DetectScreens }

InitDetect ==
    /\ InitProgram
    /\ args \in DetectArgs
    /\ result = None

\* The call returns (or raises).
call_detect_with_templates ==
    /\ args # None
    /\ args.fn = "detect_with_templates"
    /\ result = None
    /\ result' = Some(detect_with_templates(args.templates_6, args.templates_5,
                                            args.templates_4, args.detection_region,
                                            args.threshold, args.screen))
    /\ UNCHANGED <<ctrlVars, settingVars, dialogVars, threadVars, last_detection,
                   templates, feedback_data, uiVars, config_file, exited, args, now, clicks>>

SpecDetect == InitDetect /\ [][call_detect_with_templates]_vars

\* -------------------------------------------- load_templates on its own
\* Every state of the six template files, a mode to detect in afterwards
\* and the screen that detection meets.
OcrScreens ==
    { MkScreen([c \in Classes |-> 0], Origin, NoText, TRUE),
      MkScreen([c \in Classes |-> 90], Origin, [ok |-> TRUE, text |-> <<"5">>], TRUE),
      MkScreen([c \in Classes |-> 90], Origin, OcrFails, TRUE) }
TemplateArgs ==
    [fn : {"load_templates"},
     fs : [TemplatePaths -> {Missing, Unreadable, Image(4, 4)}],
     mode : Modes, screen : OcrScreens]

\* __init__ has made the six lists empty (lines 87-93) and is about to
\* call load_templates.
InitTemplates ==
    /\ InitController
    /\ InitSettings
    /\ InitDialog
    /\ InitThreads
    /\ templates = [m \in Modes |-> [c \in Classes |-> <<>>]]
    /\ args \in TemplateArgs
    /\ result = None

call_load_templates ==
    /\ args # None
    /\ args.fn = "load_templates"
    /\ result = None
    /\ templates' = load_templates(args.fs)
    /\ result' = Some([step |-> "loaded"])
    /\ UNCHANGED <<ctrlVars, settingVars, dialogVars, threadVars, last_detection,
                   feedback_data, uiVars, config_file, exited, args, now, clicks>>

\* A detection of args.mode with the lists as loaded.
detect_with_loaded ==
    /\ args # None
    /\ args.fn = "load_templates"
    /\ result = Some([step |-> "loaded"])
    /\ result' = Some([step |-> "detected",
                       d |-> detect_with_templates(templates[args.mode][6],
                                                   templates[args.mode][5],
                                                   templates[args.mode][4],
                                                   RegionOfMode(args.mode),
                                                   match_threshold, args.screen)])
    /\ UNCHANGED <<ctrlVars, settingVars, dialogVars, threadVars, last_detection,
                   templates, feedback_data, uiVars, config_file, exited, args, now, clicks>>

SpecTemplates == InitTemplates /\ [][call_load_templates \/ detect_with_loaded]_vars

\* ----------------------------------------- a region calibration on its own
\* Where the pointer is at the two captures, and the regions a calibration
\* may find.
CornerPositions == {<<0, 0>>, <<40, 30>>, <<40, 0>>, <<10, 50>>}
PriorRegions == {None, <<100, 50, 200, 200>>}
RegionArgs ==
    [fn : {"set_detection_region"}, mode : Modes,
     first : CornerPositions, second : CornerPositions,
     elemental : PriorRegions, physical : PriorRegions]

\* The dialog is open, Set Region was pressed for args.mode and
\* countdown1 has counted down: the first corner is about to be captured.
InitRegion ==
    /\ InitController
    /\ InitThreads
    /\ templates = load_templates(TemplateFiles)
    /\ click_coordinates = None
    /\ match_threshold = DefaultThreshold
    /\ click_cooldown = DefaultCooldown
    /\ check_interval = DefaultInterval
    /\ args \in RegionArgs
    /\ result = None
    /\ elemental_detection_region = args.elemental
    /\ physical_detection_region = args.physical
    /\ settings_window = "withdrawn"
    /\ countdown = "step1"
    /\ seconds = 0
    /\ selected_mode = args.mode
    /\ top_left = None

\* countdown1 with the pointer at the first position.
region_countdown1 ==
    /\ args # None
    /\ args.fn = "set_detection_region"
    /\ countdown1_reads(args.first)
    /\ UNCHANGED callVars

\* countdown2 with the pointer at the second position; the message box
\* it ends with.
region_countdown2 ==
    /\ args # None
    /\ args.fn = "set_detection_region"
    /\ countdown2_reads(args.second)
    /\ result' = IF seconds > 0 THEN result
                 ELSE Some([shown |-> Shown(top_left, args.second)])
    /\ UNCHANGED args

SpecRegion == InitRegion /\ [][region_countdown1 \/ region_countdown2]_vars

\* ------------------------------------------------- load_config on its own
\* The attributes load_config assigns.
Self ==
    [match_threshold |-> match_threshold, click_cooldown |-> click_cooldown,
     check_interval |-> check_interval, click_coordinates |-> click_coordinates,
     elemental_detection_region |-> elemental_detection_region,
     physical_detection_region |-> physical_detection_region,
     feedback_data |-> feedback_data, printed |-> FALSE]

\* The elemental region without the legacy field.
ElementalRegion_without_legacy(elemental_reg, detection_reg, current) ==
    IF NonEmpty(elemental_reg) /\ LenOf(elemental_reg) = 4
    THEN TupleOf(elemental_reg)
    ELSE current
\* Lines 119-122: the elemental field when it is a list of four, else the
\* legacy field when that is a list of four, else the attribute as it is.
ElementalRegion(elemental_reg, detection_reg, current) ==
    IF NonEmpty(elemental_reg) /\ LenOf(elemental_reg) = 4
    THEN TupleOf(elemental_reg)
    ELSE IF NonEmpty(detection_reg) /\ LenOf(detection_reg) = 4
    THEN TupleOf(detection_reg)
    ELSE current

\* load_config on the attributes self as __init__ has set them: nothing
\* when the file does not exist; "Could not load config" when it cannot be
\* parsed; otherwise the assignments of lines 108-128, and then
\* update_feedback_stats, which raises AttributeError because the labels
\* are created after load_config, and the exception is printed.  A click
\* position with fewer than two items raises IndexError at line 113, after
\* the three assignments before it, and is printed the same way.
load_config(file, self) ==
    IF file.kind = "missing" THEN self
    ELSE IF file.kind = "unreadable" THEN [self EXCEPT !.printed = TRUE]
    ELSE LET click_pos == Get(file, "click_coordinates", None)
             detection_reg == Get(file, "detection_region", None)
             elemental_reg == Get(file, "elemental_detection_region", None)
             physical_reg == Get(file, "physical_detection_region", None)
         IN  IF NonEmpty(click_pos) /\ LenOf(click_pos) < 2
             THEN [self EXCEPT
                      !.match_threshold = Get(file, "match_threshold", DefaultThreshold),
                      !.click_cooldown = Get(file, "click_cooldown", DefaultCooldown),
                      !.check_interval = Get(file, "check_interval", DefaultInterval),
                      !.printed = TRUE]
             ELSE
             [match_threshold |-> Get(file, "match_threshold", DefaultThreshold),
              click_cooldown |-> Get(file, "click_cooldown", DefaultCooldown),
              check_interval |-> Get(file, "check_interval", DefaultInterval),
              click_coordinates |->
                  IF NonEmpty(click_pos)
                  THEN <<click_pos[1][1], click_pos[1][2]>>
                  ELSE self.click_coordinates,
              elemental_detection_region |->
                  ElementalRegion(elemental_reg, detection_reg,
                                  self.elemental_detection_region),
              physical_detection_region |->
                  IF NonEmpty(physical_reg) /\ LenOf(physical_reg) = 4
                  THEN TupleOf(physical_reg)
                  ELSE self.physical_detection_region,
              feedback_data |-> Get(file, "feedback_data", JsonList(<<>>)),
              printed |-> TRUE]

\* The fields of detector_config.json, the legacy detection_region among
\* them, and a file that has them all.
ConfigFields ==
    {"match_threshold", "click_cooldown", "check_interval", "click_coordinates",
     "detection_region", "elemental_detection_region", "physical_detection_region",
     "feedback_data"}
GoodEntry ==
    [number |-> 6, mode |-> "elemental", confidence |-> 90, feedback |-> "good",
     timestamp |-> Epoch]
FullConfigs ==
    [kind : {"json"},
     match_threshold : {50, 150}, click_cooldown : {4, 0}, check_interval : {2},
     click_coordinates : {None, JsonList(<<0, 0>>), JsonList(<<40, 30>>), JsonList(<<7>>)},
     detection_region : {None, JsonList(<<10, 20, 30, 40>>)},
     elemental_detection_region :
         {None, JsonList(<<100, 50, 200, 200>>), JsonList(<<5, 5, 0, 10>>)},
     physical_detection_region : {None, JsonList(<<0, 0, 64, 48>>)},
     feedback_data : {JsonList(<<>>), JsonList(<<GoodEntry>>)}]
\* The files load_config may find: none, one that is not JSON, and the
\* JSON objects with any subset of the fields, written by save_config or
\* by hand (a threshold of 1.5, a cooldown of 0, a click position of one
\* item, a region of width 0).
ConfigFiles ==
    {NoConfig, Unreadable}
    \cup { [k \in S \cup {"kind"} |-> full[k]] : full \in FullConfigs, S \in SUBSET ConfigFields }

InitLoad ==
    /\ InitProgram
    /\ args \in { [fn |-> "load_config", file |-> file] : file \in ConfigFiles }
    /\ result = None

\* __init__ calls load_config (line 83): the attributes take what it
\* assigns.
call_load_config ==
    /\ args # None
    /\ args.fn = "load_config"
    /\ result = None
    /\ LET loaded == load_config(args.file, Self) IN
        /\ match_threshold' = loaded.match_threshold
        /\ click_cooldown' = loaded.click_cooldown
        /\ check_interval' = loaded.check_interval
        /\ click_coordinates' = loaded.click_coordinates
        /\ elemental_detection_region' = loaded.elemental_detection_region
        /\ physical_detection_region' = loaded.physical_detection_region
        /\ feedback_data' = loaded.feedback_data
        /\ result' = Some(loaded)
    /\ UNCHANGED <<ctrlVars, dialogVars, threadVars, last_detection,
                   templates, uiVars, config_file, exited, args, now, clicks>>

SpecLoad == InitLoad /\ [][call_load_config]_vars

\* ---------------------------------------------------- the feedback list
\* The entry feedback_good / feedback_bad build from self.last_detection.
feedback_entry(detection, verdict) ==
    [number |-> detection[1], mode |-> detection[2], confidence |-> detection[3],
     feedback |-> verdict, timestamp |-> detection[4]]

\* A handler that keeps the newest entry alone.
feedback_keeps_latest(verdict) ==
    /\ ~exited
    /\ IF last_detection # None
       THEN /\ Len(feedback_data[1]) < MaxFeedback
            /\ feedback_data' = JsonList(<<feedback_entry(last_detection, verdict)>>)
            /\ UNCHANGED settingVars
            /\ \E written \in WriteOutcomes : save_config(written)
            /\ buttons' = FALSE
            /\ shown' = <<last_detection[1], last_detection[2], 0>>
            /\ rated' = TRUE
       ELSE UNCHANGED <<settingVars, feedback_data, config_file, buttons, shown, rated>>
    /\ UNCHANGED <<ctrlVars, dialogVars, threadVars, last_detection, templates,
                   after_queue, exited, callVars, now, clicks>>

\* feedback_good / feedback_bad (verdict is what the button stands for):
\* with a stored detection the entry is appended, save_config runs, both
\* buttons are disabled and the label names the number and the mode of
\* the entry (no confidence); otherwise nothing.  The handler is taken
\* whenever the program runs, whatever the state of the two buttons.
feedback(verdict) ==
    /\ ~exited
    /\ IF last_detection # None
       THEN /\ Len(feedback_data[1]) < MaxFeedback
            /\ feedback_data' =
                   JsonList(Append(feedback_data[1], feedback_entry(last_detection, verdict)))
            /\ UNCHANGED settingVars
            /\ \E written \in WriteOutcomes : save_config(written)
            /\ buttons' = FALSE
            /\ shown' = <<last_detection[1], last_detection[2], 0>>
            /\ rated' = TRUE
       ELSE UNCHANGED <<settingVars, feedback_data, config_file, buttons, shown, rated>>
    /\ UNCHANGED <<ctrlVars, dialogVars, threadVars, last_detection, templates,
                   after_queue, exited, callVars, now, clicks>>

feedback_good == feedback("good")
feedback_bad == feedback("bad")

\* detector_config.json as save_config left it in an earlier session, the
\* settings at their defaults and one entry in the history.
StoredFile ==
    [kind |-> "json",
     match_threshold |-> DefaultThreshold,
     click_cooldown |-> DefaultCooldown,
     check_interval |-> DefaultInterval,
     click_coordinates |-> None,
     elemental_detection_region |-> None,
     physical_detection_region |-> None,
     feedback_data |-> JsonList(<<GoodEntry>>)]

\* A session: the file of the last one if there was one, and whether the
\* file can be written.
SessionArgs == [fn : {"session"}, disk_ok : BOOLEAN, file : {NoConfig, StoredFile}]

\* __init__ with that file: load_config takes the history from it.
InitSession ==
    /\ args \in SessionArgs
    /\ result = None
    /\ running = FALSE
    /\ paused = FALSE
    /\ detection_thread = 0
    /\ mode = NoMode
    /\ last_detection = None
    /\ config_file = args.file
    /\ feedback_data = Get(args.file, "feedback_data", JsonList(<<>>))
    /\ InitUi
    /\ exited = FALSE
    /\ InitSettings
    /\ InitDialog
    /\ InitThreads
    /\ templates = load_templates(TemplateFiles)

\* The controller, the Save of the dialog, the threads with the clock
\* standing, the two feedback buttons and the exit.
NextFeedback ==
    \/ Commands
    \/ \E t \in Threads : LoopTop(t)
    \/ \E t \in Threads : Cycle(t)
    \/ feedback_good
    \/ feedback_bad
    \/ stop_program

SpecFeedback == InitSession /\ [][NextFeedback]_vars

\* ------------------------------------------- the detection shown and rated
\* update_detection_ui, run by the main loop for the oldest pending
\* root.after call: the label shows the number, the mode and the
\* confidence of that call, and both feedback buttons are enabled.
update_detection_ui ==
    /\ ~exited
    /\ after_queue # <<>>
    /\ shown' = Head(after_queue)
    /\ buttons' = TRUE
    /\ after_queue' = Tail(after_queue)
    /\ UNCHANGED rated
    /\ UNCHANGED <<ctrlVars, settingVars, dialogVars, threadVars, last_detection,
                   templates, feedback_data, config_file, exited, callVars, now, clicks>>

\* The two feedback buttons: a press reaches its command only while the
\* button is enabled.
good_btn == buttons /\ feedback("good")
bad_btn == buttons /\ feedback("bad")

\* The controller, the threads against the clock, the main loop running
\* the deferred updates, and the operator at the two buttons.
NextRate ==
    \/ NextRun
    \/ update_detection_ui
    \/ good_btn
    \/ bad_btn

SpecRate == Init /\ [][NextRate]_vars

\* ------------------------------------------- one settings dialog on its own
\* The settings as they are when open_settings builds the dialog.
DialogArgs ==
    [fn : {"open_settings"},
     click_cooldown : CooldownValues,
     click_coordinates : {None, <<7, 9>>},
     elemental_detection_region : PriorRegions,
     physical_detection_region : PriorRegions]

\* The dialog has just been opened on those settings, detection idle.
InitOpened ==
    /\ InitController
    /\ InitThreads
    /\ templates = load_templates(TemplateFiles)
    /\ args \in DialogArgs
    /\ result = None
    /\ match_threshold = DefaultThreshold
    /\ click_cooldown = args.click_cooldown
    /\ check_interval = DefaultInterval
    /\ click_coordinates = args.click_coordinates
    /\ elemental_detection_region = args.elemental_detection_region
    /\ physical_detection_region = args.physical_detection_region
    /\ settings_window = "open"
    /\ countdown = "none"
    /\ seconds = 0
    /\ selected_mode = NoMode
    /\ top_left = None

\* What the operator can do in the dialog until Save or Cancel closes it.
NextDialog ==
    \/ set_click_position
    \/ countdown_click
    \/ set_detection_region
    \/ countdown1
    \/ countdown2
    \/ save_settings
    \/ cancel_settings

SpecDialog == InitOpened /\ [][NextDialog]_vars

\* ------------------------------------------ save and load on their own
BadEntry ==
    [number |-> 4, mode |-> "physical", confidence |-> 0, feedback |-> "bad",
     timestamp |-> Epoch + 1]

\* The attributes of an instance about to save: settings the sliders and
\* the calibrations can give, a feedback list, and whether the file can
\* be written.
RoundTripArgs ==
    [fn : {"round_trip"},
     disk_ok : BOOLEAN,
     match_threshold : {0, DefaultThreshold},
     click_cooldown : {1, 4},
     check_interval : {DefaultInterval, 2},
     click_coordinates : {None, <<0, 0>>, <<0, 30>>, <<40, 30>>},
     elemental_detection_region : {None, <<0, 0, 64, 48>>, <<100, 50, 200, 200>>},
     physical_detection_region : {None, <<10, 20, 30, 40>>},
     feedback_data : {JsonList(<<>>), JsonList(<<GoodEntry>>),
                      JsonList(<<GoodEntry, BadEntry>>)}]

InitRoundTrip ==
    /\ args \in RoundTripArgs
    /\ result = None
    /\ running = FALSE
    /\ paused = FALSE
    /\ detection_thread = 0
    /\ mode = NoMode
    /\ last_detection = None
    /\ config_file = NoConfig
    /\ exited = FALSE
    /\ InitUi
    /\ InitDialog
    /\ InitThreads
    /\ templates = load_templates(TemplateFiles)
    /\ match_threshold = args.match_threshold
    /\ click_cooldown = args.click_cooldown
    /\ check_interval = args.check_interval
    /\ click_coordinates = args.click_coordinates
    /\ elemental_detection_region = args.elemental_detection_region
    /\ physical_detection_region = args.physical_detection_region
    /\ feedback_data = args.feedback_data

\* save_config on those attributes.
call_save_config ==
    /\ args # None
    /\ args.fn = "round_trip"
    /\ result = None
    /\ UNCHANGED <<settingVars, feedback_data>>
    /\ \E written \in WriteOutcomes : save_config(written)
    /\ result' = Some([step |-> "saved"])
    /\ UNCHANGED <<ctrlVars, dialogVars, threadVars, last_detection, templates, uiVars,
                   exited, args, now, clicks>>

\* The attributes __init__ sets before it calls load_config.
Fresh ==
    [match_threshold |-> DefaultThreshold, click_cooldown |-> DefaultCooldown,
     check_interval |-> DefaultInterval, click_coordinates |-> None,
     elemental_detection_region |-> None, physical_detection_region |-> None,
     feedback_data |-> JsonList(<<>>), printed |-> FALSE]

\* A new instance on the file the save left: __init__ and its load_config.
load_fresh ==
    /\ args # None
    /\ args.fn = "round_trip"
    /\ result = Some([step |-> "saved"])
    /\ LET loaded == load_config(config_file, Fresh) IN
        /\ match_threshold' = loaded.match_threshold
        /\ click_cooldown' = loaded.click_cooldown
        /\ check_interval' = loaded.check_interval
        /\ click_coordinates' = loaded.click_coordinates
        /\ elemental_detection_region' = loaded.elemental_detection_region
        /\ physical_detection_region' = loaded.physical_detection_region
        /\ feedback_data' = loaded.feedback_data
    /\ result' = Some([step |-> "loaded"])
    /\ UNCHANGED <<ctrlVars, dialogVars, threadVars, last_detection, templates, uiVars,
                   config_file, exited, args, now, clicks>>

SpecRoundTrip == InitRoundTrip /\ [][call_save_config \/ load_fresh]_vars

\* ---------------------------------------------------------------- exit
\* The close button of the main window.  No WM_DELETE_WINDOW handler is
\* installed, so Tk destroys the root, the dialog with it, mainloop
\* returns and the process ends with its daemon threads; neither
\* stop_program nor save_config is called and self.running is as it was.
close_window ==
    /\ ~exited
    /\ exited' = TRUE
    /\ settings_window' = "closed"
    /\ countdown' = "none"
    /\ seconds' = 0
    /\ selected_mode' = NoMode
    /\ top_left' = None
    /\ UNCHANGED <<ctrlVars, settingVars, threadVars, last_detection, templates,
                   feedback_data, uiVars, config_file, callVars, now, clicks>>

\* The controller and the whole dialog, as in SpecUI, in a session with a
\* file that can or cannot be written, and the two ways out.
NextExit ==
    \/ NextUI
    \/ close_window

SpecExit == InitSession /\ [][NextExit]_vars

\* ---------------------------------------------------------------- claims
\* A thread is inside its loop: in a pass, or in one of the loop's sleeps.
InLoop(t) == pc[t] \in {"detect", "sleep", "pause_sleep"}

\* The run thread t was started for has been stopped since.
Stopped(t) == Alive(t) /\ (~running \/ t # detection_thread)

\* C1: at any moment at most one detection thread is inside its loop
\* (executing a pass or sleeping), whatever commands were given.
C1_AtMostOneThread == Cardinality({t \in Threads : InLoop(t)}) <= 1

\* C2: a click is issued at least click_cooldown after the click before
\* it, measured between the moments the two clicks are issued, across
\* every sequence of start, stop, pause and resume.
C2_ClicksCooldownApart ==
    [][(clicks # <<>> /\ clicks' # clicks)
          => clicks'[1].at - clicks[1].at >= click_cooldown]_vars

\* Thread t completes a pass in this step.
PassOf(t) == pc[t] = "detect" /\ pc'[t] # "detect"

\* C3: in one run of the loop, a pass that comes less than click_cooldown
\* after the pass that clicked issues no click, whatever it detects: it
\* leaves the detection counter, last_click_time and the recorded
\* detection as they were, so the two detections got one click and one
\* count.
C3_SecondDetectionDropped ==
    [][\A t \in Threads :
          (PassOf(t) /\ current_time[t] - last_click_time[t] < click_cooldown)
          => /\ outcome' \in {"cooldown", "none", "error"}
             /\ clicks' = clicks
             /\ detection_count'[t] = detection_count[t]
             /\ last_click_time'[t] = last_click_time[t]
             /\ last_detection' = last_detection]_vars

\* A pass has just dropped a detection because of the cooldown: the thread
\* clicked once before, counted one, and now sleeps.
C3_Witness ==
    /\ outcome = "cooldown"
    /\ clicks # <<>>
    /\ \E t \in Threads :
          /\ pc[t] = "sleep"
          /\ detection_count[t] = 1
          /\ last_click_time[t] = clicks[1].at
          /\ now - last_click_time[t] < click_cooldown

\* C4: while detection is running or paused no step changes the
\* threshold, the cooldown, the interval, the click coordinates or a
\* detection region.
C4_SettingsFrozenWhileRunning == [][running => UNCHANGED settingVars]_vars

\* C5: start takes effect only from Idle, where it sets running, clears
\* paused, sets the mode and spawns exactly one thread; invoked while
\* running or paused it changes no flag, no mode and no thread.
C5_StartOnlyFromIdle ==
    [][\A m \in Modes :
          start(m) =>
             IF ~running
             THEN /\ running' /\ ~paused' /\ mode' = m
                  /\ detection_thread' = detection_thread + 1
                  /\ pc[detection_thread'] = "unborn"
                  /\ pc'[detection_thread'] = "loop"
                  /\ kind'[detection_thread'] = m
                  /\ \A t \in Threads \ {detection_thread'} : pc'[t] = pc[t]
             ELSE UNCHANGED <<running, paused, mode, detection_thread, pc, kind>>]_vars

\* A start from Idle has taken effect: running in physical mode with the
\* one thread it spawned, and the dialog open (so detection started after
\* the dialog was opened).
C5_Witness ==
    /\ running /\ ~paused /\ mode = "physical"
    /\ detection_thread = 1 /\ pc[1] = "loop" /\ kind[1] = "physical"
    /\ pc[2] = "unborn"
    /\ settings_window = "open"

\* C6: stop from Running or Paused gives Idle (not running, not paused,
\* no mode), the state in which start's test of running lets a start
\* through; stop from Idle changes nothing.
C6_StopYieldsIdle ==
    [][stop_detection =>
          /\ ~running' /\ ~paused' /\ mode' = NoMode
          /\ UNCHANGED <<detection_thread, settingVars, threadVars>>
          /\ (~running => UNCHANGED vars)]_vars

\* Detection was started, later stopped: Idle with one thread spawned.
C6_Witness ==
    /\ ~running /\ ~paused /\ mode = NoMode
    /\ detection_thread = 1 /\ kind[1] \in Modes

\* C7 as the specification states it: while the controller is paused no
\* thread captures, matches or clicks, so no pass completes and no click
\* is issued between a pause and the resume.
C7_NoPassWhilePaused ==
    [][paused => /\ clicks' = clicks
                 /\ \A t \in Threads : pc[t] = "detect" => pc'[t] = "detect"]_vars

\* C7: while the controller is paused no thread begins a pass: a thread
\* that reaches the top of its loop only sleeps 0.5 s.  The pass a thread
\* was in when the pause came is completed, so a click while paused comes
\* from a pass that began before the pause, at most one for each thread.
C7_NoPassBeginsWhilePaused ==
    [][paused =>
          /\ \A t \in Threads :
                /\ pc'[t] = "detect" => pc[t] = "detect"
                /\ (pc[t] = "loop" /\ pc'[t] # "loop")
                      => pc'[t] = "pause_sleep" /\ wake'[t] = now + PausePoll
          /\ clicks' # clicks =>
                \E t \in Threads : /\ pc[t] = "detect" /\ pc'[t] = "sleep"
                                   /\ current_time[t] <= now]_vars

\* Paused, with a thread that saw the pause at the top of its loop and
\* sleeps.
C7_Witness ==
    /\ running /\ paused
    /\ \E t \in Threads : pc[t] = "pause_sleep" /\ wake[t] > 0

\* C8: a thread whose run has been stopped leaves its loop the next time
\* it reaches the top, and runs no other pass, whatever commands follow
\* the stop.
C8_StopHonoured ==
    [][\A t \in Threads :
          (Stopped(t) /\ pc[t] = "loop" /\ pc'[t] # "loop") => pc'[t] = "done"]_vars

\* C9: an exception raised in a pass (by the capture, the matching or the
\* click) is caught and printed: the thread stays alive and goes to the
\* sleep of check_interval, the run state is as it was, and unless a stop
\* comes the thread goes on to its next pass once the sleep is over.
C9_ExceptionCaught ==
    /\ [][\A t \in Threads :
             (PassOf(t) /\ outcome' = "error")
             => /\ pc'[t] = "sleep"
                /\ wake'[t] = now + check_interval
                /\ UNCHANGED <<ctrlVars, settingVars, clicks, last_detection>>
                /\ last_click_time'[t] = last_click_time[t]]_vars
    /\ \A t \in Threads :
          (pc[t] = "sleep" /\ outcome = "error")
             ~> \/ pc[t] \in {"detect", "pause_sleep", "done"}
                \/ wake[t] > Epoch + Horizon

\* A pass has raised; its thread sleeps and the controller still runs.
C9_Witness ==
    /\ outcome = "error" /\ running /\ ~paused
    /\ \E t \in Threads : pc[t] = "sleep" /\ t = detection_thread
                            /\ wake[t] <= Epoch + Horizon

\* C10: a pass that is not paused, detects a number and has the cooldown
\* behind it issues one click, sets last_click_time to the time of the
\* pass and records the detection, wherever on the screen (x >= 0,
\* y >= 0) the number was found.  The click itself is taken to return.
C10_DetectionClicks ==
    [][\A t \in Threads, screen \in Screens :
          ( /\ CycleBody(t, screen, TRUE)
            /\ Detection(t, screen).detected
            /\ current_time[t] - last_click_time[t] >= click_cooldown )
          => /\ clicks' = << [by |-> t, at |-> now,
                              x |-> ClickTarget(Detection(t, screen))[1],
                              y |-> ClickTarget(Detection(t, screen))[2]] >>
             /\ last_click_time'[t] = current_time[t]
             /\ last_detection' = <<Detection(t, screen).detected_number[1], kind[t],
                                    Detection(t, screen).confidence, current_time[t]>>]_vars

\* C11: a click goes to self.click_coordinates when the pass found a
\* click position configured, and to the location the pass detected when
\* it found none; it goes to no other point.
C11_ClickTarget ==
    [][\A t \in Threads :
          (pc[t] = "click" /\ pc'[t] # "click" /\ clicks' # clicks)
          => <<clicks'[1].x, clicks'[1].y>> =
                IF held[t][1].first # None
                THEN click_coordinates
                ELSE <<held[t][1].d.click_x[1], held[t][1].d.click_y[1]>>]_vars

\* C12: a pass that detects a number before click_cooldown has passed
\* since last_click_time issues no click and leaves last_click_time, the
\* detection counter and the recorded detection as they were; nothing of
\* the dropped detection is kept, and every click is issued by a pass that
\* detects a number itself.
C12_DroppedNotQueued ==
    /\ [][\A t \in Threads :
             PassOf(t) =>
                \A screen \in Screens, click_ok \in BOOLEAN :
                   ( /\ CycleBody(t, screen, click_ok)
                     /\ Detection(t, screen).detected
                     /\ current_time[t] - last_click_time[t] < click_cooldown )
                   => /\ pc'[t] = "sleep"
                      /\ UNCHANGED <<clicks, last_detection, last_click_time,
                                     detection_count, held>>]_vars
    /\ [][clicks' # clicks =>
             \E t \in Threads, screen \in Screens :
                /\ clicks'[1].by = t
                /\ CycleBody(t, screen, TRUE)
                /\ Detection(t, screen).detected]_vars

\* A thread clicked on one pass and dropped the detection of a later one:
\* the recorded detection is still that of the click.
C12_Witness ==
    /\ outcome = "cooldown"
    /\ last_detection # None
    /\ \E t \in Threads :
          /\ pc[t] = "sleep"
          /\ last_click_time[t] = last_detection[4]
          /\ now > last_click_time[t]
          /\ wake[t] = now + check_interval


\* ------------------------------------ claims on detect_with_templates
\* The call of detect_with_templates has returned or raised; what it gave.
Returned == result # None /\ args.fn = "detect_with_templates"
Given == result[1]
\* The call met a capture that succeeded.
Grabbed == args.screen.grab
ListOf(c) ==
    CASE c = 6 -> args.templates_6 [] c = 5 -> args.templates_5 [] c = 4 -> args.templates_4
Raster == Capture(args.detection_region)
Fits(tpl) == tpl.w <= Raster.w /\ tpl.h <= Raster.h
AllFit(c) == \A i \in 1 .. Len(ListOf(c)) : Fits(ListOf(c)[i])
Score(tpl) == args.screen.match[tpl.id].val
\* The maximum score over the templates of a class that has some.
MaxScore(c) ==
    LET scores == {Score(ListOf(c)[i]) : i \in 1 .. Len(ListOf(c))} IN
    CHOOSE m \in scores : \A v \in scores : v <= m
\* A class meets the threshold.
Meets(c) == ListOf(c) # <<>> /\ MaxScore(c) >= args.threshold
\* The absolute location of the best match of a template.
Centre(tpl) ==
    LET r == args.screen.match[tpl.id]
        off == IF args.detection_region = None THEN <<0, 0>>
               ELSE <<args.detection_region[1], args.detection_region[2]>>
    IN  <<r.x + (tpl.w \div 2) + off[1], r.y + (tpl.h \div 2) + off[2]>>
\* The result reports class c.
Reports(c) ==
    /\ ~Given.raised
    /\ Given.detected
    /\ Given.detected_number = Some(c)

\* C13: the reported class is the highest-priority class (6, then 5, then
\* 4) whose best confidence meets the threshold, whatever the confidences
\* of the lower classes, and the lower classes are then not evaluated (a
\* template of theirs that cannot be matched does not matter).
C13_PriorityDominance ==
    (Returned /\ Grabbed) =>
        \A c \in Classes :
            (/\ Meets(c)
             /\ \A d \in Classes : (d >= c) => AllFit(d)
             /\ \A d \in Classes : (d > c) => ~Meets(d))
            => Reports(c)

\* C14: the confidence of a class with templates is the maximum score over
\* them, the class is accepted exactly when the maximum reaches the
\* threshold (0 included, scores all zero or negative included), and an
\* accepted class gives the location of the maximising template without
\* an exception; a class that is not accepted leaves the result to the
\* lower classes and the fallback.  Stated on class 6, the class always
\* evaluated.
C14_MaxMeetsThreshold ==
    (Returned /\ Grabbed /\ args.templates_6 # <<>> /\ AllFit(6)) =>
        IF MaxScore(6) >= args.threshold
        THEN /\ Reports(6)
             /\ Given.confidence = MaxScore(6)
             /\ \E i \in 1 .. Len(args.templates_6) :
                   /\ Score(args.templates_6[i]) = MaxScore(6)
                   /\ <<Given.click_x[1], Given.click_y[1]>> = Centre(args.templates_6[i])
        ELSE Given = detect_with_templates(<<>>, args.templates_5, args.templates_4,
                                           args.detection_region, args.threshold,
                                           args.screen)

\* The templates of a list that are not larger than the raster.
Fitting(tpls) == SelectSeq(tpls, Fits)

\* C15: an empty list is skipped and a template larger than the raster is
\* a non-match for that template only: the call gives what it gives
\* without the templates that are too large.
C15_OversizeIsNonMatch ==
    (Returned /\ Grabbed) =>
        Given = detect_with_templates(Fitting(args.templates_6), Fitting(args.templates_5),
                                      Fitting(args.templates_4), args.detection_region,
                                      args.threshold, args.screen)

\* No class was accepted and no template raised: the OCR fallback ran.
FallbackRan ==
    /\ Returned
    /\ Grabbed
    /\ args.threshold > 0
    /\ \A c \in Classes : AllFit(c) /\ ~Meets(c)
\* The rectangles whose recognised text contains '4', '5' or '6'.
Hits == {i \in 1 .. 2 : args.screen.ocr[i].ok /\ FirstTarget(Strip(args.screen.ocr[i].text)) # 0}

\* C16: an engine failure on one rectangle is swallowed and the next
\* rectangle is still tried; when every rectangle fails the call gives "no
\* detection"; no exception leaves the function.
C16_OcrFailureSkipsRegion ==
    FallbackRan =>
        /\ ~Given.raised
        /\ ((\A i \in 1 .. 2 : ~args.screen.ocr[i].ok) => ~Given.detected)
        /\ ((~args.screen.ocr[1].ok /\ 2 \in Hits) => Given.detected)

\* C17: the fallback gives the first rectangle, in the order of the list,
\* whose recognised text contains '4', '5' or '6', and the digit is the
\* first such character of the text, in string order.
C17_FirstRegionFirstChar ==
    (FallbackRan /\ Hits # {}) =>
        LET i == CHOOSE h \in Hits : \A g \in Hits : h <= g
            chars == Strip(args.screen.ocr[i].text)
            reg == regions_to_check(Raster.w, Raster.h)[i]
            x == Max(0, Min(reg[1], Raster.w - reg[3]))
            y == Max(0, Min(reg[2], Raster.h - reg[4]))
        IN  /\ Given.detected
            /\ Given.detected_number = Some(IntOfChar(chars[FirstTarget(chars)]))
            /\ Given.click_x = Some(x + (reg[3] \div 2) + Raster.ox)
            /\ Given.click_y = Some(y + (reg[4] \div 2) + Raster.oy)

\* C18: a class reported from a template match at raster-local (lx, ly)
\* of a template of size (tw, th), captured with region (x, y, w, h), has
\* the location (lx + tw div 2 + x, ly + th div 2 + y); with no region the
\* offset is (0, 0).
C18_AbsoluteLocation ==
    \A c \in Classes :
        (Returned /\ Reports(c) /\ Given.confidence > 0) =>
            \E i \in 1 .. Len(ListOf(c)) :
                /\ Score(ListOf(c)[i]) = Given.confidence
                /\ <<Given.click_x[1], Given.click_y[1]>> = Centre(ListOf(c)[i])
\* A match at raster-local (10, 10) of the 4 x 6 template in the region
\* (100, 50, 200, 200) is reported at (112, 63).
C18_Witness ==
    /\ Returned
    /\ args.detection_region = <<100, 50, 200, 200>>
    /\ Reports(6)
    /\ Given.confidence = 75
    /\ <<Given.click_x[1], Given.click_y[1]>> = <<112, 63>>


\* ------------------------------------------------- claims on load_config
\* load_config has run on a file that holds a JSON object.
Loaded == result # None /\ args.fn = "load_config" /\ args.file.kind = "json"
\* The click position of the file, if it has one, has its two items.
ClickPositionWhole ==
    ~(/\ "click_coordinates" \in DOMAIN args.file
      /\ NonEmpty(args.file["click_coordinates"])
      /\ LenOf(args.file["click_coordinates"]) < 2)
\* The file has the field, with a value other than null.
Has(key) == key \in DOMAIN args.file
HasValue(key) == Has(key) /\ args.file[key] # None
\* The region or position stored under a key, None for null or no field.
StoredTuple(key) == IF HasValue(key) THEN TupleOf(args.file[key]) ELSE None
\* The value stored under a key, the given default for no field.
StoredOr(key, default) == IF Has(key) THEN args.file[key] ELSE default

\* C19: a file with the legacy detection_region and no (or a null)
\* elemental_detection_region gives that region for the elemental region
\* and, having no physical region either, None for the physical one; an
\* elemental_detection_region in the file is taken before the legacy
\* field.
C19_LegacyRegion ==
    (Loaded /\ ClickPositionWhole) =>
        /\ (HasValue("detection_region") /\ ~HasValue("elemental_detection_region"))
               => /\ elemental_detection_region = TupleOf(args.file["detection_region"])
                  /\ ~HasValue("physical_detection_region")
                         => physical_detection_region = None
        /\ HasValue("elemental_detection_region")
               => elemental_detection_region = TupleOf(args.file["elemental_detection_region"])
\* An old file, with detection_region only, has been loaded.
C19_Witness ==
    /\ Loaded
    /\ DOMAIN args.file = {"kind", "detection_region"}
    /\ elemental_detection_region = <<10, 20, 30, 40>>
    /\ physical_detection_region = None
\* A file with both fields has been loaded.
C19_WitnessBoth ==
    /\ Loaded
    /\ HasValue("detection_region")
    /\ elemental_detection_region = <<100, 50, 200, 200>>

\* What the fields other than the elemental region are after a load.
OtherFieldsLoaded ==
    /\ match_threshold = StoredOr("match_threshold", DefaultThreshold)
    /\ click_cooldown = StoredOr("click_cooldown", DefaultCooldown)
    /\ check_interval = StoredOr("check_interval", DefaultInterval)
    /\ click_coordinates = StoredTuple("click_coordinates")
    /\ physical_detection_region = StoredTuple("physical_detection_region")
    /\ result[1].feedback_data = StoredOr("feedback_data", JsonList(<<>>))

\* C20 as stated: every absent field has its default (0.7, 1.0, 0.3, no
\* click position, no regions, empty feedback) and every present field
\* the stored value.
C20_AbsentGivesDefault ==
    (Loaded /\ ClickPositionWhole) =>
        /\ OtherFieldsLoaded
        /\ elemental_detection_region = StoredTuple("elemental_detection_region")

\* C20, amended: every absent field has its default and every present
\* field the stored value, except that an elemental region that is
\* absent or null is the legacy detection_region when the file has one.
C20_AbsentGivesDefaultOrLegacy ==
    (Loaded /\ ClickPositionWhole) =>
        /\ OtherFieldsLoaded
        /\ elemental_detection_region =
              IF HasValue("elemental_detection_region")
              THEN StoredTuple("elemental_detection_region")
              ELSE StoredTuple("detection_region")
\* A file with the cooldown and a click position only has been loaded.
C20_Witness ==
    /\ Loaded
    /\ DOMAIN args.file = {"kind", "click_cooldown", "click_coordinates"}
    /\ match_threshold = DefaultThreshold
    /\ click_cooldown = 4
    /\ click_coordinates = <<40, 30>>
    /\ elemental_detection_region = None
    /\ result[1].feedback_data = JsonList(<<>>)


\* load_config met an error: the file is not JSON, or a field of it is
\* malformed (a click position of one item).
LoadFailed ==
    /\ result # None
    /\ args.fn = "load_config"
    /\ \/ args.file.kind = "unreadable"
       \/ args.file.kind = "json" /\ ~ClickPositionWhole

\* C21: when the file is corrupt, unreadable or has a malformed field,
\* load_config returns (the error is printed) and every setting has its
\* built-in default: nothing read before the error stays applied.
C21_FailedLoadGivesDefaults ==
    LoadFailed =>
        /\ result[1].printed
        /\ match_threshold = DefaultThreshold
        /\ click_cooldown = DefaultCooldown
        /\ check_interval = DefaultInterval
        /\ click_coordinates = None
        /\ elemental_detection_region = None
        /\ physical_detection_region = None
        /\ result[1].feedback_data = JsonList(<<>>)


\* ------------------------------------------ claims on region calibration
\* The calibration has shown its message box.
Calibrated == result # None /\ args.fn = "set_detection_region"
\* The two corners give no width or no height.
Degenerate == args.first[1] = args.second[1] \/ args.first[2] = args.second[2]
Abs(n) == IF n < 0 THEN 0 - n ELSE n

\* C22: two corners with the same x or the same y (the same point among
\* them) leave the region of the selected mode and that of the other mode
\* as they were, and the operator is shown the error.
C22_DegenerateRejected ==
    (Calibrated /\ Degenerate) =>
        /\ elemental_detection_region = args.elemental
        /\ physical_detection_region = args.physical
        /\ result[1].shown = "Error"
\* The same point was captured twice over a region set before.
C22_Witness ==
    /\ Calibrated
    /\ args.first = <<40, 30>> /\ args.second = <<40, 30>>
    /\ args.mode = "elemental"
    /\ elemental_detection_region = <<100, 50, 200, 200>>
    /\ result[1].shown = "Error"

\* C29: for corners (ax, ay), (bx, by) with ax # bx and ay # by, captured
\* in either order, the region of the selected mode becomes
\* (min(ax,bx), min(ay,by), |ax-bx|, |ay-by|) and the other mode's region
\* stays.
C29_RegionNormalised ==
    (Calibrated /\ ~Degenerate) =>
        LET region == <<Min(args.first[1], args.second[1]),
                        Min(args.first[2], args.second[2]),
                        Abs(args.first[1] - args.second[1]),
                        Abs(args.first[2] - args.second[2])>>
        IN  IF args.mode = "elemental"
            THEN /\ elemental_detection_region = region
                 /\ physical_detection_region = args.physical
            ELSE /\ physical_detection_region = region
                 /\ elemental_detection_region = args.elemental
\* The bottom-right corner was captured first, the top-left second.
C29_Witness ==
    /\ Calibrated
    /\ args.first = <<40, 30>> /\ args.second = <<0, 0>>
    /\ args.mode = "physical"
    /\ physical_detection_region = <<0, 0, 40, 30>>
    /\ elemental_detection_region = args.elemental
    /\ args.elemental # None

\* C23: a detection region that is set has width > 0 and height > 0.
C23_RegionsPositive ==
    /\ elemental_detection_region # None
          => elemental_detection_region[3] > 0 /\ elemental_detection_region[4] > 0
    /\ physical_detection_region # None
          => physical_detection_region[3] > 0 /\ physical_detection_region[4] > 0

\* C24: match_threshold is in [0, 1] (hundredths: 0 .. 100), click_cooldown
\* and check_interval are above 0.
C24_SettingsInRange ==
    /\ match_threshold \in 0 .. 100
    /\ click_cooldown > 0
    /\ check_interval > 0


\* ------------------------------------------------ claims on the counter
\* C30: in every pass the detection counter, last_click_time and the
\* recorded detection are all updated, with a click performed, or all left
\* as they were, also when pyautogui.click raises; so the counter is the
\* number of clicks the loop has issued.
C30_CounterWithClick ==
    [][\A t \in Threads :
          PassOf(t) =>
             \/ /\ clicks' # clicks
                /\ clicks'[1].by = t
                /\ detection_count'[t] = detection_count[t] + 1
                /\ last_click_time'[t] = current_time[t]
                /\ last_detection' # None
                /\ last_detection'[4] = current_time[t]
             \/ /\ UNCHANGED <<clicks, last_detection>>
                /\ detection_count'[t] = detection_count[t]
                /\ last_click_time'[t] = last_click_time[t]]_vars


\* ------------------------------------------------------ claims on resume
\* Thread t of the current run sleeps in the paused poll and the
\* controller has been resumed; the sleep ends within the time modelled.
Resumed(t) ==
    /\ running /\ ~paused
    /\ t = detection_thread
    /\ pc[t] = "pause_sleep"
    /\ wake[t] <= Epoch + Horizon

\* C27: after a resume, with no pause and no stop after it, the thread
\* leaves the sleep of the paused poll, begins a pass and completes it.
C27_ResumeRestoresCycling ==
    \A t \in Threads :
        /\ Resumed(t) ~> (pc[t] = "detect" \/ paused \/ ~running)
        /\ (pc[t] = "detect") ~> (pc[t] = "sleep")
\* Resumed while the thread sleeps in the paused poll.
C27_Witness == \E t \in Threads : Resumed(t)


\* ---------------------------------------------- claims on load_templates
\* load_templates has returned.
TemplatesLoaded == result # None /\ args.fn = "load_templates"

\* C28: whichever of the six files are missing or unreadable,
\* load_templates returns and each list holds exactly the image of its
\* own path if that could be read; with no template read at all a
\* detection still runs, by the OCR fallback alone.
C28_TemplatesLoadedOneByOne ==
    TemplatesLoaded =>
        /\ \A p \in TemplatePaths :
               templates[p[1]][p[2]] =
                  IF args.fs[p].kind = "image"
                  THEN << [id |-> p, w |-> args.fs[p].w, h |-> args.fs[p].h] >>
                  ELSE <<>>
        /\ (/\ result[1].step = "detected"
            /\ \A p \in TemplatePaths : args.fs[p].kind # "image")
               => /\ ~result[1].d.raised
                  /\ result[1].d.detected
                        = (args.screen.ocr[1].ok /\ args.screen.ocr[1].text = <<"5">>)
\* The first elemental file is missing, the last physical one was read,
\* and a detection has run on the lists.
C28_Witness ==
    /\ TemplatesLoaded
    /\ result[1].step = "detected"
    /\ args.fs[<<"elemental", 6>>] = Missing
    /\ args.fs[<<"physical", 5>>] = Unreadable
    /\ templates["elemental"][6] = <<>>
    /\ templates["physical"][4] # <<>>
\* No file could be read and the fallback found the 5.
C28_WitnessOcrOnly ==
    /\ TemplatesLoaded
    /\ \A p \in TemplatePaths : templates[p[1]][p[2]] = <<>>
    /\ result[1].step = "detected"
    /\ result[1].d.detected
    /\ result[1].d.detected_number = Some(5)

\* ------------------------------------------------ claims on the feedback
IsPrefix(s, t) == Len(s) <= Len(t) /\ SubSeq(t, 1, Len(s)) = s

\* C26: the feedback list only grows at its end.  Whatever the program
\* does, the records it held are still there, in place and unaltered; a
\* good or bad feedback with a stored detection adds exactly one record,
\* with that detection's number, mode, confidence and timestamp and the
\* verdict of the button, and the file then holds the list when it can be
\* written; a feedback with no stored detection changes neither the list
\* nor the file.
C26_FeedbackAppendOnly ==
    [][/\ IsPrefix(feedback_data[1], feedback_data'[1])
       /\ \A verdict \in {"good", "bad"} :
            feedback(verdict) =>
                IF last_detection # None
                THEN /\ feedback_data'[1] =
                            feedback_data[1] \o
                            << [number |-> last_detection[1], mode |-> last_detection[2],
                                confidence |-> last_detection[3], feedback |-> verdict,
                                timestamp |-> last_detection[4]] >>
                     /\ (args.disk_ok =>
                            (config_file'.kind = "json"
                             /\ config_file'.feedback_data = feedback_data'))
                ELSE UNCHANGED <<feedback_data, config_file>>
       /\ (feedback_data' # feedback_data) =>
             (last_detection # None /\ Len(feedback_data'[1]) = Len(feedback_data[1]) + 1)
      ]_vars

\* A record of the earlier session followed by two of this one, a good and
\* a bad, all three in the file.
C26_Witness ==
    /\ Len(feedback_data[1]) = 3
    /\ feedback_data[1][1] = GoodEntry
    /\ feedback_data[1][2].feedback = "good"
    /\ feedback_data[1][3].feedback = "bad"
    /\ feedback_data[1][3].mode = "physical"
    /\ config_file.kind = "json"
    /\ config_file.feedback_data = feedback_data

\* ---------------------------------------------------- claims on the exit
\* What save_config writes of the settings and the feedback list.
Persisted ==
    [kind |-> "json",
     match_threshold |-> match_threshold,
     click_cooldown |-> click_cooldown,
     check_interval |-> check_interval,
     click_coordinates |-> ListOrNull(click_coordinates),
     elemental_detection_region |-> ListOrNull(elemental_detection_region),
     physical_detection_region |-> ListOrNull(physical_detection_region),
     feedback_data |-> feedback_data]

\* C25: whenever the program exits, from Idle, Running or Paused, the
\* detection loop has been told to stop (running is FALSE) and, the file
\* being writable, it holds the settings and the feedback list as they
\* are at that moment.
C25_ExitPersists ==
    [][(~exited /\ exited') =>
          (/\ ~running'
           /\ (args.disk_ok => config_file' = Persisted'))]_vars

\* ------------------------------------------------ claims on the run state
\* C31: under the start, stop and pause commands the three flags agree:
\* paused only while running, and a mode (elemental or physical) exactly
\* while running; a pause/resume given while idle changes nothing.
C31_RunStateConsistent ==
    /\ [](/\ (paused => running)
          /\ (running <=> mode \in Modes)
          /\ (~running => mode = NoMode))
    /\ [][(toggle_pause /\ ~running) => UNCHANGED vars]_vars

\* Paused in the physical mode, after an earlier run was stopped.
C31_Witness == running /\ paused /\ mode = "physical" /\ detection_thread = 2

\* Idle again after a run that was paused when it was stopped.
C31_WitnessIdle == ~running /\ ~paused /\ mode = NoMode /\ detection_thread = 2

\* -------------------------------------- claims on the reported location
\* C32: a location reported by detect_with_templates, from a template or
\* from the OCR fallback, lies inside the captured rectangle: offset <=
\* coordinate < offset + raster size on both axes, whatever the size of
\* the raster.
C32_LocationInsideCapture ==
    (Returned /\ ~Given.raised /\ Given.detected) =>
        /\ Raster.ox <= Given.click_x[1]
        /\ Given.click_x[1] < Raster.ox + Raster.w
        /\ Raster.oy <= Given.click_y[1]
        /\ Given.click_y[1] < Raster.oy + Raster.h

\* ------------------------------------------ claims on rating a detection
\* C33: whatever the order of the clicks of the detection threads, the
\* deferred updates of the label and the presses of the feedback buttons,
\* a record added to the feedback list describes the detection the label
\* showed when the button was pressed (its number and mode, and its
\* confidence when the label shows one), and no record has been made from
\* that detection yet.
C33_RatedOnceAsShown ==
    [][(feedback_data' # feedback_data) =>
          LET r == feedback_data'[1][Len(feedback_data'[1])] IN
          /\ shown # None
          /\ r.number = shown[1]
          /\ r.mode = shown[2]
          /\ (shown[3] > 0 => r.confidence = shown[3])
          /\ ~rated
      ]_vars

\* ---------------------------------------- claims on the detection result
\* Some class of templates reaches the threshold on this screen.
SomeClassMeets == \E c \in Classes : Meets(c)

\* C34: the tuple detect_with_templates returns is well-formed.  When
\* detected is true the number is 4, 5 or 6, both coordinates are set, and
\* the confidence is at least the threshold if a class of templates was
\* accepted and exactly 0 if the OCR fallback found the number; when
\* detected is false the number and both coordinates are None and the
\* confidence is 0.
C34_ResultWellFormed ==
    (Returned /\ ~Given.raised) =>
        IF Given.detected
        THEN /\ Given.detected_number # None
             /\ Given.detected_number[1] \in {4, 5, 6}
             /\ Given.click_x # None
             /\ Given.click_y # None
             /\ IF SomeClassMeets
                THEN Given.confidence >= args.threshold /\ Given.confidence > 0
                ELSE Given.confidence = 0
        ELSE /\ Given.detected_number = None
             /\ Given.click_x = None
             /\ Given.click_y = None
             /\ Given.confidence = 0

\* A 5 accepted from its template at 90 against the threshold 70, the
\* class 6 having stayed below it.
C34_Witness ==
    /\ Returned
    /\ ~Given.raised
    /\ args.threshold = DefaultThreshold
    /\ args.templates_6 # <<>>
    /\ Reports(5)
    /\ Given.confidence = 90

\* A 6 read by the OCR fallback on the second rectangle: confidence 0.
C34_WitnessOcr ==
    /\ Returned
    /\ ~Given.raised
    /\ ~SomeClassMeets
    /\ Reports(6)
    /\ Given.confidence = 0
    /\ args.screen.ocr[1] = NoText

\* Nothing detected, with templates of every class and both rectangles read.
C34_WitnessNone ==
    /\ Returned
    /\ ~Given.raised
    /\ ~Given.detected
    /\ \A c \in Classes : ListOf(c) # <<>>
    /\ \A i \in 1 .. 2 : args.screen.ocr[i].ok

\* ------------------------------------------------------ claims on Cancel
\* C35: when Cancel closes the settings dialog, the threshold, the
\* cooldown, the interval, the click position and both detection regions
\* are what they were when the dialog was opened.
C35_CancelRestores ==
    [][cancel_settings =>
          /\ match_threshold' = DefaultThreshold
          /\ click_cooldown' = args.click_cooldown
          /\ check_interval' = DefaultInterval
          /\ click_coordinates' = args.click_coordinates
          /\ elemental_detection_region' = args.elemental_detection_region
          /\ physical_detection_region' = args.physical_detection_region
      ]_vars

\* ------------------------------------------------ claims on save and load
\* The new instance has loaded the file of a save that succeeded.
Reloaded ==
    /\ args # None
    /\ args.fn = "round_trip"
    /\ args.disk_ok
    /\ result = Some([step |-> "loaded"])

\* C36: a new instance that loads what save_config wrote has the saved
\* values: threshold, cooldown, interval, the click position (set, with a
\* coordinate 0, or not set), both regions (set or not) and the feedback
\* list.
C36_SaveLoadIdentity ==
    Reloaded =>
        /\ match_threshold = args.match_threshold
        /\ click_cooldown = args.click_cooldown
        /\ check_interval = args.check_interval
        /\ click_coordinates = args.click_coordinates
        /\ elemental_detection_region = args.elemental_detection_region
        /\ physical_detection_region = args.physical_detection_region
        /\ feedback_data = args.feedback_data

\* Reloaded: threshold 0, the click position (0, 30), the elemental region
\* at the origin, no physical region and two feedback records.
C36_Witness ==
    /\ Reloaded
    /\ match_threshold = 0
    /\ click_cooldown = 4
    /\ click_coordinates = <<0, 30>>
    /\ elemental_detection_region = <<0, 0, 64, 48>>
    /\ physical_detection_region = None
    /\ feedback_data = JsonList(<<GoodEntry, BadEntry>>)
    /\ config_file.click_coordinates = JsonList(<<0, 30>>)

====
